---- MODULE Spec2Model ----
(***************************************************************************)
(* SoftoVault SDK: the Vault client (src/unnamed/part_000).                 *)
(*                                                                         *)
(* One Vault instance.  Its state is this.config, the two cache maps and   *)
(* the invocations of its async methods that are suspended at an await     *)
(* (fetch, response.json(), the backoff timer).  JavaScript runs each      *)
(* stretch of code between two awaits without interruption, so one action  *)
(* is one such stretch, together with the promise continuations of the     *)
(* callers (get, exists, the getMany callback) that it resolves.           *)
(***************************************************************************)
EXTENDS Integers, Sequences, FiniteSets, TLC

\* ------------------------------------------------------------------ bounds
MaxRetries == 2        \* config.retries ranges over 0..MaxRetries
MaxCalls == 2          \* invocations suspended at the same time
MaxTime == 2           \* Date.now() ranges over 1..MaxTime
MaxTTL == 1            \* config.cacheTTL ranges over 0..MaxTTL
MaxKeys == 2           \* length of the array handed to getMany

VARIABLES
  config,            \* this.config: retries, cache, cacheTTL
  cache,             \* this.cache: Map cacheKey -> value
  cacheTimestamps,   \* this.cacheTimestamps: Map cacheKey -> Date.now() at the store
  now,               \* Date.now()
  calls,             \* the invocations of get/getAll/exists/getVaultInfo in progress
  many,              \* the invocation of getMany in progress
  hist               \* history of stores and clears (read by the properties only)

vars == <<config, cache, cacheTimestamps, now, calls, many, hist>>

Calls == 1..MaxCalls

\* ------------------------------------------------------------ JS values
\* A key handed to get: a JavaScript value with its typeof and its string form.
Str(s) == [type |-> "string", str |-> s]
Num(s) == [type |-> "number", str |-> s]
NoKey == [type |-> "undefined", str |-> "undefined"]

Undefined == "<undefined>"
Null == "<null>"
EmptyObject == "{}"

\* Response bodies as response.json() sees them.  "malformed" does not parse;
\* "null" is the JSON literal null; the others are JSON objects.
Bodies == {"D1", "D2", "D0", "E1", "E2", "null", "malformed"}

\* body.value, body.secrets, body.message of a parsed object
ValueField(b) == CASE b = "D1" -> "v1" [] b = "D2" -> "v2" [] OTHER -> Undefined
SecretsField(b) == CASE b = "D1" -> "s1" [] b = "D2" -> "s2" [] OTHER -> Undefined
MessageField(b) ==
  CASE b = "E1" -> <<"access", "denied">>
    [] b = "E2" -> <<"resource", "not", "found">>
    [] OTHER -> <<>>

\* response.statusText: the reason phrase of the status line
StatusText(status) ==
  CASE status = 400 -> <<"Bad", "Request">>
    [] status = 404 -> <<"Not", "Found">>
    [] status = 429 -> <<"Too", "Many", "Requests">>
    [] status = 500 -> <<"Internal", "Server", "Error">>
    [] status = 503 -> <<"Service", "Unavailable">>
    [] OTHER -> <<>>

\* String.prototype.includes on messages (sequences of words, case-sensitive)
Includes(msg, pat) ==
  \E i \in 1..(Len(msg) - Len(pat) + 1) : SubSeq(msg, i, i + Len(pat) - 1) = pat

\* ---------------------------------------------------------------- errors
\* A thrown value: error.name, error.status (absent unless hasStatus), error.message
Err(name, hasStatus, status, message) ==
  [name |-> name, hasStatus |-> hasStatus, status |-> status, message |-> message]
NoError == Err("", FALSE, 0, <<>>)

\* new Error(errorData.message || `HTTP ${status}: ${statusText}`) with error.status
HttpError(status, msgField) ==
  Err("Error", TRUE, status,
      IF msgField # <<>> THEN msgField
      ELSE <<"HTTP", ToString(status)>> \o StatusText(status))
\* reading .message / .value / .secrets of null
NullTypeError == Err("TypeError", FALSE, 0, <<"Cannot", "read", "properties", "of", "null">>)
\* response.json() of a success body that is not JSON
JsonSyntaxError == Err("SyntaxError", FALSE, 0, <<"Unexpected", "token">>)
\* fetch rejecting: no connection
NetworkError == Err("TypeError", FALSE, 0, <<"fetch", "failed">>)
\* fetch rejecting: controller.abort() from the timeout timer
AbortError == Err("AbortError", FALSE, 0, <<"This", "operation", "was", "aborted">>)
InvalidKeyError ==
  Err("Error", FALSE, 0, <<"Secret", "key", "must", "be", "a", "non-empty", "string">>)
NotFoundError(key) ==
  Err("Error", FALSE, 0, <<"Secret", "with", "key", key.str, "not", "found">>)
KeysNotArrayError == Err("Error", FALSE, 0, <<"Keys", "must", "be", "an", "array">>)

\* ------------------------------------------------------------ call records
Pending == [state |-> "pending", value |-> Undefined, error |-> NoError]
Returned(v) == [state |-> "ok", value |-> v, error |-> NoError]
Raised(e) == [state |-> "error", value |-> Undefined, error |-> e]

\* the options argument of _makeRequest: the keys it has, and its headers
\* (none when it has no headers key)
NoOptions == [keys |-> {}, headers |-> <<>>]

IdleCall ==
  [op |-> "idle", key |-> NoKey, useCache |-> TRUE, idx |-> 0,
   options |-> NoOptions, sent |-> <<>>,
   pc |-> "idle", attempt |-> 0, status |-> 0, timers |-> {},
   nreq |-> 0, log |-> <<>>, sleeps |-> <<>>,
   hit |-> FALSE, got |-> Pending, result |-> Pending]

IdleMany ==
  [pc |-> "idle", isArray |-> TRUE, keys |-> <<>>, failOnMissing |-> FALSE, useCache |-> TRUE,
   pending |-> {}, results |-> <<>>, errors |-> <<>>, order |-> <<>>,
   outcomes |-> <<>>, result |-> Pending]


\* ------------------------------------------------------------- TTL cache
\* `secret:${key}` and 'secrets:all'
SecretKey(key) == <<"secret", key.str>>
AllKey == <<"secrets", "all">>

\* (mutant) an entry still valid when exactly cacheTTL has elapsed
IsCacheValidInclusive(ck) ==
  IF ~config.cache \/ ck \notin DOMAIN cache THEN FALSE
  ELSE LET timestamp == IF ck \in DOMAIN cacheTimestamps THEN cacheTimestamps[ck] ELSE 0
       IN  timestamp # 0 /\ (now - timestamp) <= config.cacheTTL

\* _isCacheValid(key); an absent timestamp is undefined, falsy like 0
IsCacheValid(ck) ==
  IF ~config.cache \/ ck \notin DOMAIN cache THEN FALSE
  ELSE LET timestamp == IF ck \in DOMAIN cacheTimestamps THEN cacheTimestamps[ck] ELSE 0
       IN  timestamp # 0 /\ (now - timestamp) < config.cacheTTL

\* (mutant) a store that keeps the value already cached for the key
SetCacheKeepFirst(ck, value) ==
  IF ~config.cache
  THEN [cache |-> cache, cacheTimestamps |-> cacheTimestamps]
  ELSE [cache |-> cache @@ (ck :> value),
        cacheTimestamps |-> (ck :> now) @@ cacheTimestamps]

\* (mutant) a store that does not look at config.cache
SetCacheUnconditional(ck, value) ==
  [cache |-> (ck :> value) @@ cache,
   cacheTimestamps |-> (ck :> now) @@ cacheTimestamps]

\* (mutant) a store that writes the value and leaves the timestamp for later
SetCacheValueOnly(ck, value) ==
  IF ~config.cache
  THEN [cache |-> cache, cacheTimestamps |-> cacheTimestamps]
  ELSE [cache |-> (ck :> value) @@ cache, cacheTimestamps |-> cacheTimestamps]

\* _setCache(key, value): the two maps after the call
SetCache(ck, value) ==
  IF ~config.cache
  THEN [cache |-> cache, cacheTimestamps |-> cacheTimestamps]
  ELSE [cache |-> (ck :> value) @@ cache,
        cacheTimestamps |-> (ck :> now) @@ cacheTimestamps]

\* clearCache(): the two maps after the call
ClearedCache ==
  IF config.cache
  THEN [cache |-> <<>>, cacheTimestamps |-> <<>>]
  ELSE [cache |-> cache, cacheTimestamps |-> cacheTimestamps]

\* getCacheStats(); keys is the set of the keys of this.cache
GetCacheStats ==
  IF ~config.cache
  THEN [enabled |-> FALSE]
  ELSE [enabled |-> TRUE, size |-> Cardinality(DOMAIN cache),
        ttl |-> config.cacheTTL, keys |-> DOMAIN cache]

\* ------------------------------------------- retrying request executor
ReqOk(data) == [ok |-> TRUE, data |-> data, error |-> NoError]
ReqFail(e) == [ok |-> FALSE, data |-> Undefined, error |-> e]

\* response.ok
ResponseOk(status) == status >= 200 /\ status <= 299

\* error.status >= 400 && error.status < 500 && error.status !== 429
IsClientError(e) == e.hasStatus /\ e.status >= 400 /\ e.status < 500 /\ e.status # 429

\* Math.pow(2, attempt) * 1000
Delay(attempt) == (2 ^ attempt) * 1000

\* (mutant) the last attempt taken one early
IsLastAttemptEarly(attempt) == attempt + 1 >= config.retries

\* attempt === this.config.retries
IsLastAttempt(attempt) == attempt = config.retries

\* { ...a, ...b }: the properties of b replace those of a
Spread(a, b) == b @@ a

\* the three headers _makeRequest sets
DefaultHeaders ==
  ("Authorization" :> "Bearer token") @@ ("Content-Type" :> "application/json")
    @@ ("User-Agent" :> "SoftoVault-SDK/0.1.0")

\* requestOptions.headers: { headers: { ...defaults, ...options.headers },
\* timeout, ...options }, where a headers property of options replaces the
\* merged one
RequestHeaders(options) ==
  LET merged == Spread(DefaultHeaders, options.headers)
  IN  IF "headers" \in options.keys THEN options.headers ELSE merged

\* one pass of the loop up to `await fetch`: a new AbortController, its timeout
\* timer armed, the request handed to the transport
IssueFetch(cr, attempt) ==
  [cr EXCEPT !.pc = "fetch", !.attempt = attempt, !.status = 0,
             !.timers = @ \union {attempt}, !.nreq = @ + 1,
             !.sent = RequestHeaders(cr.options)]

\* (mutant) the catch block rethrowing the first error of the call, not the latest
CatchAttemptFirstError(cr, status, e) ==
  LET logged == [cr EXCEPT !.log = Append(@, [status |-> status, error |-> e]),
                           !.status = 0]
      first == logged.log[1].error
  IN  IF IsClientError(e) \/ cr.attempt = config.retries
      THEN [settled |-> TRUE, cr |-> logged, outcome |-> ReqFail(first)]
      ELSE [settled |-> FALSE,
            cr |-> [logged EXCEPT !.pc = "sleep",
                                  !.sleeps = Append(@, [after |-> cr.attempt,
                                                        ms |-> Delay(cr.attempt)])],
            outcome |-> ReqFail(first)]

\* the catch block of the loop, for the error e of the current attempt, thrown
\* after the response status `status` was received (0: no response)
CatchAttempt(cr, status, e) ==
  LET logged == [cr EXCEPT !.log = Append(@, [status |-> status, error |-> e]),
                           !.status = 0]
  IN  IF IsClientError(e) \/ IsLastAttempt(cr.attempt)
      THEN [settled |-> TRUE, cr |-> logged, outcome |-> ReqFail(e)]
      ELSE [settled |-> FALSE,
            cr |-> [logged EXCEPT !.pc = "sleep",
                                  !.sleeps = Append(@, [after |-> cr.attempt,
                                                        ms |-> Delay(cr.attempt)])],
            outcome |-> ReqFail(e)]

\* the try block after the headers arrived with `status`, once response.json()
\* has settled on `body`
ReadBody(cr, status, body) ==
  IF ~ResponseOk(status)
  THEN \* errorData = await response.json().catch(() => ({}))
       IF body = "null"
       THEN CatchAttempt(cr, status, NullTypeError)
       ELSE CatchAttempt(cr, status,
                         HttpError(status, IF body = "malformed" THEN <<>>
                                           ELSE MessageField(body)))
  ELSE IF body = "malformed"
       THEN CatchAttempt(cr, status, JsonSyntaxError)
       ELSE [settled |-> TRUE,
             cr |-> [cr EXCEPT !.log = Append(@, [status |-> status, error |-> NoError]),
                               !.status = 0],
             outcome |-> ReqOk(IF body = "null" THEN Null ELSE body)]

\* --------------------------------------------------- secret access facade
\* !key || typeof key !== 'string'
InvalidKey(key) == key.type # "string" \/ key.str = ""

NoStore == [store |-> FALSE, ck |-> AllKey, value |-> Undefined]

\* (mutant) get caching the fetched value whatever options.useCache says
GetOutcomeAlwaysStore(cr, ro) ==
  IF ro.ok
  THEN IF ro.data = Null
       THEN [result |-> Raised(NullTypeError)] @@ NoStore
       ELSE [result |-> Returned(ValueField(ro.data)),
             store |-> TRUE, ck |-> SecretKey(cr.key),
             value |-> ValueField(ro.data)]
  ELSE IF ro.error.hasStatus /\ ro.error.status = 404
       THEN [result |-> Raised(NotFoundError(cr.key))] @@ NoStore
       ELSE [result |-> Raised(ro.error)] @@ NoStore

\* get(key, options) once _makeRequest has settled with ro
GetOutcome(cr, ro) ==
  IF ro.ok
  THEN IF ro.data = Null
       THEN [result |-> Raised(NullTypeError)] @@ NoStore
       ELSE [result |-> Returned(ValueField(ro.data)),
             store |-> cr.useCache, ck |-> SecretKey(cr.key),
             value |-> ValueField(ro.data)]
  ELSE IF ro.error.hasStatus /\ ro.error.status = 404
       THEN [result |-> Raised(NotFoundError(cr.key))] @@ NoStore
       ELSE [result |-> Raised(ro.error)] @@ NoStore

\* getAll(options) once _makeRequest has settled with ro
GetAllOutcome(cr, ro) ==
  IF ro.ok
  THEN IF ro.data = Null
       THEN [result |-> Raised(NullTypeError)] @@ NoStore
       ELSE LET secrets == IF SecretsField(ro.data) = Undefined THEN EmptyObject
                           ELSE SecretsField(ro.data)
            IN  [result |-> Returned(secrets), store |-> cr.useCache,
                 ck |-> AllKey, value |-> secrets]
  ELSE [result |-> Raised(ro.error)] @@ NoStore

\* getVaultInfo() once _makeRequest has settled with ro
InfoOutcome(cr, ro) ==
  [result |-> IF ro.ok THEN Returned(ro.data) ELSE Raised(ro.error)] @@ NoStore

\* (mutant) exists telling a missing secret by the status 404 alone
ExistsResultStatusOnly(got) ==
  IF got.state = "ok" THEN Returned("true")
  ELSE IF got.error.hasStatus /\ got.error.status = 404
       THEN Returned("false")
       ELSE Raised(got.error)

\* exists(key) once its get has settled with `got`
ExistsResult(got) ==
  IF got.state = "ok" THEN Returned("true")
  ELSE IF (got.error.hasStatus /\ got.error.status = 404)
          \/ Includes(got.error.message, <<"not", "found">>)
       THEN Returned("false")
       ELSE Raised(got.error)

FacadeOutcome(cr, ro) ==
  CASE cr.op \in {"getVaultInfo", "request"} -> InfoOutcome(cr, ro)
    [] cr.op = "getAll" -> GetAllOutcome(cr, ro)
    [] cr.op = "exists" ->
         LET g == GetOutcome(cr, ro)
         IN  [g EXCEPT !.result = ExistsResult(g.result)] @@ [got |-> g.result]
    [] OTHER -> GetOutcome(cr, ro)

\* (mutant) the callback recording nothing for a key whose get failed
ManyCollectSkipFailed(m, idx, got) ==
  LET key == m.keys[idx].str
      base == [m EXCEPT !.pending = @ \ {idx},
                        !.outcomes = (idx :> got) @@ @,
                        !.order = Append(@, idx)]
  IN  IF got.state = "ok"
      THEN [base EXCEPT !.results = (key :> got.value) @@ @]
      ELSE IF m.failOnMissing
           THEN [base EXCEPT !.errors = Append(@, [key |-> key, error |-> got.error.message])]
           ELSE base

\* the callback of keys.map in getMany, once the get of keys[idx] has settled
ManyCollect(m, idx, got) ==
  LET key == m.keys[idx].str
      base == [m EXCEPT !.pending = @ \ {idx},
                        !.outcomes = (idx :> got) @@ @,
                        !.order = Append(@, idx)]
  IN  IF got.state = "ok"
      THEN [base EXCEPT !.results = (key :> got.value) @@ @]
      ELSE IF m.failOnMissing
           THEN [base EXCEPT !.errors = Append(@, [key |-> key, error |-> got.error.message])]
           ELSE [base EXCEPT !.results = (key :> Null) @@ @]

\* errors.map(e => `${e.key}: ${e.error}`).join(', ')
RECURSIVE JoinErrors(_)
JoinErrors(errors) ==
  IF errors = <<>> THEN <<>>
  ELSE <<errors[1].key>> \o errors[1].error \o JoinErrors(Tail(errors))

AggregateError(errors) ==
  Err("Error", FALSE, 0, <<"Failed", "to", "retrieve", "secrets">> \o JoinErrors(errors))

\* (mutant) getMany surfacing the first failure only
ManyResultFirstFailure(m) ==
  IF Len(m.errors) > 0 /\ m.failOnMissing
  THEN Raised(AggregateError(<<m.errors[1]>>))
  ELSE Returned("results")

\* getMany after Promise.allSettled
ManyResult(m) ==
  IF Len(m.errors) > 0 /\ m.failOnMissing
  THEN Raised(AggregateError(m.errors))
  ELSE Returned("results")


\* --------------------------------------------------------------- history
\* hist.last[ck]: the value the latest caching fetch of ck returned, and when;
\* hist.first[ck]: the same for the first one since the last clearCache;
\* hist.cleared: clearCache has been called; hist.started: the cache keys
\* looked up since then.
NoHist == [last |-> <<>>, first |-> <<>>, cleared |-> FALSE, started |-> {}]

RecordStore(h, ck, value) ==
  LET entry == [value |-> value, at |-> now]
  IN  [h EXCEPT !.last = (ck :> entry) @@ @,
                !.first = IF ck \in DOMAIN @ THEN @ ELSE (ck :> entry) @@ @]

RecordClear(h) == [last |-> <<>>, first |-> <<>>, cleared |-> TRUE, started |-> {}]

RecordLookup(h, cks) == IF h.cleared THEN [h EXCEPT !.started = @ \union cks] ELSE h

\* ------------------------------------------------ the start of an operation
\* (mutant) get looking the key up in the cache before it checks the key
StartGetLookupFirst(op, key, useCache, idx) ==
  LET ck == SecretKey(key)
      base == [IdleCall EXCEPT !.op = op, !.key = key, !.useCache = useCache, !.idx = idx]
  IN  IF useCache /\ IsCacheValid(ck)
      THEN [base EXCEPT !.pc = "done", !.hit = TRUE, !.result = Returned(cache[ck])]
      ELSE IF InvalidKey(key)
           THEN [base EXCEPT !.pc = "done", !.result = Raised(InvalidKeyError)]
           ELSE IssueFetch(base, 0)

\* get(key, options) up to its first await (or to its return, when it does not
\* reach one): the key check, the cache lookup, the first fetch
StartGet(op, key, useCache, idx) ==
  LET ck == SecretKey(key)
      base == [IdleCall EXCEPT !.op = op, !.key = key, !.useCache = useCache, !.idx = idx]
  IN  IF InvalidKey(key)
      THEN [base EXCEPT !.pc = "done", !.result = Raised(InvalidKeyError)]
      ELSE IF useCache /\ IsCacheValid(ck)
           THEN [base EXCEPT !.pc = "done", !.hit = TRUE, !.result = Returned(cache[ck])]
           ELSE IssueFetch(base, 0)

\* getAll(options) up to its first await or its return
StartGetAll(useCache) ==
  LET base == [IdleCall EXCEPT !.op = "getAll", !.useCache = useCache]
  IN  IF useCache /\ IsCacheValid(AllKey)
      THEN [base EXCEPT !.pc = "done", !.hit = TRUE, !.result = Returned(cache[AllKey])]
      ELSE IssueFetch(base, 0)

\* ------------------------------------------------------------- the steps
\* _makeRequest has settled with ro: the continuations of the callers run
Finish(c, cr, ro) ==
  LET fo == FacadeOutcome(cr, ro)
      sc == IF fo.store THEN SetCache(fo.ck, fo.value)
            ELSE [cache |-> cache, cacheTimestamps |-> cacheTimestamps]
  IN  /\ cache' = sc.cache
      /\ cacheTimestamps' = sc.cacheTimestamps
      /\ hist' = IF fo.store THEN RecordStore(hist, fo.ck, fo.value) ELSE hist
      /\ IF cr.op = "manyGet"
         THEN /\ calls' = [calls EXCEPT ![c] = IdleCall]
              /\ many' = ManyCollect(many, cr.idx, fo.result)
         ELSE /\ calls' = [calls EXCEPT ![c] =
                          [cr EXCEPT !.pc = "done", !.result = fo.result,
                                     !.got = IF cr.op = "exists" THEN fo.got ELSE @]]
              /\ many' = many

\* the outcome r of a step of the loop: settled, or suspended in the backoff sleep
Step(c, r) ==
  IF r.settled
  THEN Finish(c, r.cr, r.outcome)
  ELSE /\ calls' = [calls EXCEPT ![c] = r.cr]
       /\ UNCHANGED <<cache, cacheTimestamps, many, hist>>

\* a free slot for a new invocation: the lowest one (the slots are interchangeable)
Idle(c) == calls[c].pc = "idle"
Free(c) == Idle(c) /\ \A d \in Calls : d < c => ~Idle(d)

\* vault.get(key, {useCache})
Get(c, key, useCache) ==
  /\ Free(c)
  /\ calls' = [calls EXCEPT ![c] = StartGet("get", key, useCache, 0)]
  /\ hist' = IF InvalidKey(key) THEN hist ELSE RecordLookup(hist, {SecretKey(key)})
  /\ UNCHANGED <<config, cache, cacheTimestamps, now, many>>

\* vault.exists(key): get(key) with the default options
Exists(c, key) ==
  /\ Free(c)
  /\ LET g == StartGet("exists", key, TRUE, 0)
     IN  calls' = [calls EXCEPT ![c] =
                     IF g.pc = "done"
                     THEN [g EXCEPT !.result = ExistsResult(g.result), !.got = g.result]
                     ELSE g]
  /\ hist' = IF InvalidKey(key) THEN hist ELSE RecordLookup(hist, {SecretKey(key)})
  /\ UNCHANGED <<config, cache, cacheTimestamps, now, many>>

\* vault.getAll({useCache})
GetAll(c, useCache) ==
  /\ Free(c)
  /\ calls' = [calls EXCEPT ![c] = StartGetAll(useCache)]
  /\ hist' = RecordLookup(hist, {AllKey})
  /\ UNCHANGED <<config, cache, cacheTimestamps, now, many>>

\* vault.getVaultInfo()
GetVaultInfo(c) ==
  /\ Free(c)
  /\ calls' = [calls EXCEPT ![c] = IssueFetch([IdleCall EXCEPT !.op = "getVaultInfo"], 0)]
  /\ UNCHANGED <<config, cache, cacheTimestamps, now, many, hist>>

\* vault._makeRequest('/info', options)
MakeRequest(c, options) ==
  /\ Free(c)
  /\ calls' = [calls EXCEPT ![c] =
                 IssueFetch([IdleCall EXCEPT !.op = "request", !.options = options], 0)]
  /\ UNCHANGED <<config, cache, cacheTimestamps, now, many, hist>>

\* the transport delivers the status line and headers: fetch resolves,
\* clearTimeout(timeoutId), and the body is awaited
Headers(c, status) ==
  /\ calls[c].pc = "fetch"
  /\ calls' = [calls EXCEPT ![c] = [@ EXCEPT !.pc = "json", !.status = status,
                                             !.timers = @ \ {calls[c].attempt}]]
  /\ UNCHANGED <<config, cache, cacheTimestamps, now, many, hist>>

\* response.json() settles
Body(c, body) ==
  /\ calls[c].pc = "json"
  /\ Step(c, ReadBody(calls[c], calls[c].status, body))
  /\ UNCHANGED <<config, now>>

\* the transport fails: fetch rejects; the timeout timer stays armed
FetchFail(c) ==
  /\ calls[c].pc = "fetch"
  /\ Step(c, CatchAttempt(calls[c], 0, NetworkError))
  /\ UNCHANGED <<config, now>>

\* (mutant) one controller for the whole call: any timer aborts the attempt in flight
TimerFireSharedController(c, i) ==
  /\ i \in calls[c].timers
  /\ LET cr == [calls[c] EXCEPT !.timers = @ \ {i}]
     IN  IF cr.pc = "fetch"
         THEN Step(c, CatchAttempt(cr, 0, AbortError))
         ELSE /\ calls' = [calls EXCEPT ![c] = cr]
              /\ UNCHANGED <<cache, cacheTimestamps, many, hist>>
  /\ UNCHANGED <<config, now>>

\* the timeout timer armed for attempt i fires: controller.abort() of attempt i
TimerFire(c, i) ==
  /\ i \in calls[c].timers
  /\ LET cr == [calls[c] EXCEPT !.timers = @ \ {i}]
     IN  IF cr.pc = "fetch" /\ cr.attempt = i
         THEN Step(c, CatchAttempt(cr, 0, AbortError))
         ELSE /\ calls' = [calls EXCEPT ![c] = cr]
              /\ UNCHANGED <<cache, cacheTimestamps, many, hist>>
  /\ UNCHANGED <<config, now>>

\* the backoff timer fires: the loop goes on with the next attempt
BackoffDone(c) ==
  /\ calls[c].pc = "sleep"
  /\ calls' = [calls EXCEPT ![c] = IssueFetch(@, calls[c].attempt + 1)]
  /\ UNCHANGED <<config, cache, cacheTimestamps, now, many, hist>>

\* vault.clearCache()
ClearCache ==
  /\ cache' = ClearedCache.cache
  /\ cacheTimestamps' = ClearedCache.cacheTimestamps
  /\ hist' = RecordClear(hist)
  /\ UNCHANGED <<config, now, calls, many>>

\* time passes
Tick ==
  /\ now < MaxTime
  /\ now' = now + 1
  /\ UNCHANGED <<config, cache, cacheTimestamps, calls, many, hist>>

\* the caller has taken the result of a settled invocation
Release(c) ==
  /\ calls[c].pc = "done"
  /\ calls' = [calls EXCEPT ![c] = IdleCall]
  /\ UNCHANGED <<config, cache, cacheTimestamps, now, many, hist>>


\* ---------------------------------------------------------------- getMany
IdleSlots == {c \in Calls : Idle(c)}
RankIn(S, x) == Cardinality({y \in S : y < x}) + 1

\* the keys whose get reaches the transport (the others settle at once)
NetIdx(keys, useCache) ==
  {i \in 1..Len(keys) : StartGet("manyGet", keys[i], useCache, i).pc # "done"}

\* the callbacks of the gets that settled without an await run first, in array order
RECURSIVE CollectSync(_, _)
CollectSync(m, i) ==
  IF i > Len(m.keys) THEN m
  ELSE LET g == StartGet("manyGet", m.keys[i], m.useCache, i)
       IN  CollectSync(IF g.pc = "done" THEN ManyCollect(m, i, g.result) ELSE m, i + 1)

\* vault.getMany(keys, {useCache, failOnMissing}) with an array: keys.map starts
\* every get before anything else runs
GetMany(keys, useCache, failOnMissing) ==
  /\ many.pc = "idle"
  /\ LET net == NetIdx(keys, useCache)
         idle == IdleSlots
         IdxOf(c) == CHOOSE i \in net : RankIn(net, i) = RankIn(idle, c)
     IN  /\ Cardinality(idle) >= Cardinality(net)
         /\ calls' = [c \in Calls |->
                        IF c \in idle /\ RankIn(idle, c) <= Cardinality(net)
                        THEN StartGet("manyGet", keys[IdxOf(c)], useCache, IdxOf(c))
                        ELSE calls[c]]
  /\ many' = CollectSync([IdleMany EXCEPT !.pc = "pending", !.keys = keys,
                                          !.useCache = useCache,
                                          !.failOnMissing = failOnMissing,
                                          !.pending = 1..Len(keys)], 1)
  /\ hist' = RecordLookup(hist, {SecretKey(keys[i]) :
                                   i \in {j \in 1..Len(keys) : ~InvalidKey(keys[j])}})
  /\ UNCHANGED <<config, cache, cacheTimestamps, now>>

\* vault.getMany(keys) with keys that is not an array
GetManyNotArray ==
  /\ many.pc = "idle"
  /\ many' = [IdleMany EXCEPT !.pc = "done", !.isArray = FALSE,
                               !.result = Raised(KeysNotArrayError)]
  /\ UNCHANGED <<config, cache, cacheTimestamps, now, calls, hist>>

\* Promise.allSettled resolves: every callback has run
ManySettle ==
  /\ many.pc = "pending"
  /\ many.pending = {}
  /\ many' = [many EXCEPT !.pc = "done", !.result = ManyResult(many)]
  /\ UNCHANGED <<config, cache, cacheTimestamps, now, calls, hist>>

\* the caller has taken the result of getMany
ManyRelease ==
  /\ many.pc = "done"
  /\ many' = IdleMany
  /\ UNCHANGED <<config, cache, cacheTimestamps, now, calls, hist>>

\* ------------------------------------------------------- specifications
\* the state after the constructor, for a configuration out of cfgs
InitWith(cfgs) ==
  /\ config \in cfgs
  /\ cache = <<>>
  /\ cacheTimestamps = <<>>
  /\ now = 1
  /\ calls = [c \in Calls |-> IdleCall]
  /\ many = IdleMany
  /\ hist = NoHist

\* The executor alone: one _makeRequest (through getVaultInfo) at a time,
\* against every response of the transport.
ExecStatuses == {200, 400, 404, 429, 500, 503}
ExecBodies == {"D1", "E1", "null", "malformed"}

InitExec ==
  InitWith([retries : 0..MaxRetries, cache : {TRUE}, cacheTTL : {MaxTTL}])

NextExec ==
  \/ GetVaultInfo(1)
  \/ \E status \in ExecStatuses : Headers(1, status)
  \/ \E body \in ExecBodies : Body(1, body)
  \/ FetchFail(1)
  \/ \E i \in 0..MaxRetries : TimerFire(1, i)
  \/ BackoffDone(1)
  \/ Release(1)

SpecExec == InitExec /\ [][NextExec]_vars

\* The executor called with options: one _makeRequest at a time.
ReqOptions ==
  {NoOptions,
   [keys |-> {"method"}, headers |-> <<>>],
   [keys |-> {"headers"}, headers |-> ("X-Trace" :> "1")],
   [keys |-> {"headers"}, headers |-> ("Authorization" :> "Bearer other")],
   [keys |-> {"headers", "method"}, headers |-> ("Content-Type" :> "text/plain")]}
ReqStatuses == {200, 500}
ReqBodies == {"D1", "E1"}

InitReq ==
  InitWith([retries : 0..1, cache : {TRUE}, cacheTTL : {MaxTTL}])

NextReq ==
  \/ \E options \in ReqOptions : MakeRequest(1, options)
  \/ \E status \in ReqStatuses : Headers(1, status)
  \/ \E body \in ReqBodies : Body(1, body)
  \/ FetchFail(1)
  \/ \E i \in 0..1 : TimerFire(1, i)
  \/ BackoffDone(1)
  \/ Release(1)

SpecReq == InitReq /\ [][NextReq]_vars

\* The executor with its timers: a timer that is armed fires (setTimeout of
\* the attempt's timeout and of the backoff delay).  Nothing is assumed of the
\* transport: it may never deliver headers, a failure or a body.
TimersFire ==
  /\ WF_vars(BackoffDone(1))
  /\ \A i \in 0..MaxRetries : WF_vars(TimerFire(1, i))

SpecTimers == InitExec /\ [][NextExec]_vars /\ TimersFire

\* The facade over one invocation at a time: get and exists against every
\* response of the transport.
ErrKeys == {Str("a"), Str("7"), Str(""), Num("7")}
ErrStatuses == {200, 400, 404, 429, 500}
ErrBodies == {"D1", "E1", "E2", "null", "malformed"}

InitErr ==
  InitWith([retries : 0..1, cache : BOOLEAN, cacheTTL : {MaxTTL}])

NextErr ==
  \/ \E key \in ErrKeys, useCache \in BOOLEAN : Get(1, key, useCache)
  \/ \E key \in ErrKeys : Exists(1, key)
  \/ \E status \in ErrStatuses : Headers(1, status)
  \/ \E body \in ErrBodies : Body(1, body)
  \/ FetchFail(1)
  \/ \E i \in 0..1 : TimerFire(1, i)
  \/ BackoffDone(1)
  \/ Release(1)

SpecErr == InitErr /\ [][NextErr]_vars

\* The cache: overlapping get, getAll and clearCache while time passes.
CacheKeys == {Str("a")}
CacheStatuses == {200, 500}
CacheBodies == {"D1", "D2"}

Init ==
  InitWith([retries : {0}, cache : BOOLEAN, cacheTTL : 0..MaxTTL])

Next ==
  \/ \E c \in Calls, key \in CacheKeys, useCache \in BOOLEAN : Get(c, key, useCache)
  \/ \E c \in Calls, useCache \in BOOLEAN : GetAll(c, useCache)
  \/ \E c \in Calls, status \in CacheStatuses : Headers(c, status)
  \/ \E c \in Calls, body \in CacheBodies : Body(c, body)
  \/ \E c \in Calls : Release(c)
  \/ ClearCache
  \/ Tick

Spec == Init /\ [][Next]_vars

\* getMany: the gets of one array, overlapping each other.
ManyKeys == {Str("a"), Str("b"), Str("")}
ManyArrays == UNION {[1..n -> ManyKeys] : n \in 0..MaxKeys}
ManyStatuses == {200, 404}
ManyBodies == {"D1", "D2"}

InitMany ==
  InitWith([retries : 0..1, cache : BOOLEAN, cacheTTL : {MaxTTL}])

NextMany ==
  \/ \E keys \in ManyArrays, useCache \in BOOLEAN, failOnMissing \in BOOLEAN :
       GetMany(keys, useCache, failOnMissing)
  \/ GetManyNotArray
  \/ \E c \in Calls, status \in ManyStatuses : Headers(c, status)
  \/ \E c \in Calls, body \in ManyBodies : Body(c, body)
  \/ \E c \in Calls : FetchFail(c)
  \/ \E c \in Calls : BackoffDone(c)
  \/ ManySettle
  \/ ManyRelease
  \/ ClearCache

SpecMany == InitMany /\ [][NextMany]_vars


\* =========================================================== properties
\* The attempts of an invocation are in its log, one entry per attempt that has
\* ended: the HTTP status received (0: none) and the error thrown (NoError: none).

\* an attempt that failed with status 5xx or 429, a network failure or a timeout
RetryableFailure(entry) ==
  \/ entry.status >= 500
  \/ entry.status = 429
  \/ entry.status = 0 /\ entry.error \in {NetworkError, AbortError}

\* an attempt that received a status in [400,500) other than 429
TerminalStatus(entry) ==
  entry.status >= 400 /\ entry.status < 500 /\ entry.status # 429

AllRetryable(log) == \A j \in 1..Len(log) : RetryableFailure(log[j])

\* C1: a _makeRequest call all of whose attempts fail retryably issues exactly
\* config.retries + 1 transport requests and then fails: it never issues more,
\* and it has not settled before the last of them.
C1_RetryCount ==
  \A c \in Calls :
    LET cr == calls[c]
    IN  (Len(cr.log) >= 1 /\ AllRetryable(cr.log))
        => /\ cr.nreq <= config.retries + 1
           /\ cr.pc = "done" => /\ cr.result.state = "error"
                                /\ cr.nreq = config.retries + 1
                                /\ Len(cr.log) = config.retries + 1

C1_Witness ==
  \E c \in Calls :
    /\ calls[c].pc = "done"
    /\ AllRetryable(calls[c].log)
    /\ config.retries = 2
    /\ calls[c].nreq = 3
    /\ calls[c].result.state = "error"

\* C2: an attempt that received a status in [400,500) other than 429 is the
\* last attempt of its call: the call has raised the error carrying that
\* status, with no transport request and no sleep after it.
C2_TerminalImmediately ==
  \A c \in Calls :
    LET cr == calls[c]
    IN  \A j \in 1..Len(cr.log) :
          TerminalStatus(cr.log[j])
          => /\ j = Len(cr.log)
             /\ cr.pc = "done"
             /\ cr.nreq = j
             /\ Len(cr.sleeps) = j - 1
             /\ cr.log[j].error.hasStatus
             /\ cr.log[j].error.status = cr.log[j].status

\* C3: the j-th sleep of a call follows attempt j-1, which failed retryably and
\* was not the last, and lasts 2^(j-1) * 1000 ms; there is exactly one sleep
\* between two attempts and none after the attempt that settled the call.
C3_Backoff ==
  \A c \in Calls :
    LET cr == calls[c]
    IN  /\ \A j \in 1..Len(cr.sleeps) :
             /\ cr.sleeps[j] = [after |-> j - 1, ms |-> (2 ^ (j - 1)) * 1000]
             /\ j - 1 < config.retries
             /\ RetryableFailure(cr.log[j])
        /\ cr.pc \in {"fetch", "json"} => Len(cr.sleeps) = cr.attempt
        /\ cr.pc = "sleep" => Len(cr.sleeps) = Len(cr.log)
        /\ (cr.pc = "done" /\ Len(cr.log) >= 1) => Len(cr.sleeps) = Len(cr.log) - 1

\* C4: when _makeRequest fails, the error it raises is the error of the last
\* attempt made, also when the attempts failed for different reasons.
C4_LastError ==
  \A c \in Calls :
    LET cr == calls[c]
    IN  (cr.op = "getVaultInfo" /\ cr.pc = "done" /\ cr.result.state = "error")
        => /\ Len(cr.log) >= 1
           /\ cr.result.error = cr.log[Len(cr.log)].error

C4_Witness ==
  \E c \in Calls :
    LET cr == calls[c]
    IN  /\ cr.pc = "done"
        /\ Len(cr.log) = 3
        /\ cr.log[1].status = 500
        /\ cr.log[2].error = AbortError
        /\ cr.log[3].status = 503
        /\ cr.result.error.hasStatus
        /\ cr.result.error.status = 503


\* ---- the cache.  A lookup is the step in which get or getAll starts; the
\* history says what was stored, and when, before that step.
LookupKey(cr) == IF cr.op = "getAll" THEN AllKey ELSE SecretKey(cr.key)

Starts(c, ops) ==
  /\ calls[c].pc = "idle"
  /\ calls'[c].op \in ops
  /\ ~(calls'[c].op # "getAll" /\ InvalidKey(calls'[c].key))

\* the call served from the cache: no transport request, the value v returned
ServedFromCache(cr, v) ==
  /\ cr.hit
  /\ cr.pc = "done"
  /\ cr.nreq = 0
  /\ cr.result = Returned(v)

\* the call gone to the network: its first transport request issued
GoneToNetwork(cr) ==
  /\ ~cr.hit
  /\ cr.pc = "fetch"
  /\ cr.nreq = 1
  /\ cr.result = Pending

\* C5 (as claimed): with caching enabled, a get(X) that starts less than cacheTTL
\* after a get(X) returned a value that was stored, with no clearCache in
\* between, issues no transport request and returns that same value.  The
\* earlier get is the first one to have stored X since the last clearCache.
C5_FirstValue ==
  [][\A c \in Calls :
       LET ck == SecretKey(calls'[c].key)
       IN  (/\ Starts(c, {"get"})
            /\ calls'[c].useCache
            /\ config.cache
            /\ ck \in DOMAIN hist.first
            /\ now - hist.first[ck].at < config.cacheTTL)
           => ServedFromCache(calls'[c], hist.first[ck].value)]_vars

\* C5 (amended): ... issues no transport request and returns the value of the
\* latest get(X) to have stored X: the first get's value unless the fetch of an
\* overlapping get(X) completed after it.
C5_LatestValue ==
  [][\A c \in Calls :
       LET ck == SecretKey(calls'[c].key)
       IN  (/\ Starts(c, {"get"})
            /\ calls'[c].useCache
            /\ config.cache
            /\ ck \in DOMAIN hist.last
            /\ now - hist.last[ck].at < config.cacheTTL)
           => ServedFromCache(calls'[c], hist.last[ck].value)]_vars

\* a get served from the cache the value the latest fetch returned, after an
\* earlier, overlapping fetch had returned another value
C5_Witness ==
  \E c \in Calls :
    LET ck == SecretKey(calls[c].key)
    IN  /\ calls[c].op = "get"
        /\ config.cache
        /\ ck \in DOMAIN hist.last
        /\ ServedFromCache(calls[c], hist.last[ck].value)
        /\ hist.first[ck].value # hist.last[ck].value
        /\ now - hist.first[ck].at < config.cacheTTL

\* C6: the first get(X) and the first getAll() to start after a clearCache()
\* issue a transport request.
C6_RequestAfterClear ==
  [][\A c \in Calls :
       (/\ Starts(c, {"get", "getAll"})
        /\ hist.cleared
        /\ LookupKey(calls'[c]) \notin hist.started)
       => GoneToNetwork(calls'[c])]_vars

\* (C6, the case the code gets right: nothing was stored since the clearCache)
C6_NothingStoredSinceClear ==
  [][\A c \in Calls :
       (/\ Starts(c, {"get", "getAll"})
        /\ hist.cleared
        /\ LookupKey(calls'[c]) \notin DOMAIN hist.last)
       => GoneToNetwork(calls'[c])]_vars

\* C7: a lookup reports the entry valid (and the call is served from the cache)
\* if and only if an entry is present and the time t elapsed since it was stored
\* is less than cacheTTL; otherwise, also at t = cacheTTL, the call goes to the
\* network.
C7_ValidIffFresh ==
  [][\A c \in Calls :
       LET ck == LookupKey(calls'[c])
           fresh == /\ config.cache
                    /\ ck \in DOMAIN hist.last
                    /\ now - hist.last[ck].at < config.cacheTTL
       IN  (Starts(c, {"get", "getAll"}) /\ calls'[c].useCache)
           => /\ fresh => ServedFromCache(calls'[c], hist.last[ck].value)
              /\ ~fresh => GoneToNetwork(calls'[c])]_vars

\* a get gone to the network although its key is cached, the entry being
\* exactly cacheTTL old, while nothing else is in progress
C7_Witness ==
  \E c \in Calls :
    LET ck == LookupKey(calls[c])
    IN  /\ calls[c].op \in {"get", "getAll"}
        /\ calls[c].useCache
        /\ \A d \in Calls \ {c} : calls[d].pc = "idle"
        /\ config.cache
        /\ config.cacheTTL >= 1
        /\ ck \in DOMAIN cache
        /\ now - cacheTimestamps[ck] = config.cacheTTL
        /\ GoneToNetwork(calls[c])


\* ---- get, exists and getMany
Words(msg) == {msg[i] : i \in 1..Len(msg)}

\* C8: when response.json() settles for an attempt of get(key) that received
\* status 404, get raises the NotFound error naming the key, with no further
\* transport request, and the cache is left as it was.
C8_NotFound ==
  [][\A c \in Calls :
       (/\ calls[c].op = "get"
        /\ calls[c].pc = "json"
        /\ calls[c].status = 404
        /\ calls'[c].pc # "json")
       => /\ calls'[c].pc = "done"
          /\ calls'[c].nreq = calls[c].nreq
          /\ calls'[c].result = Raised(NotFoundError(calls[c].key))
          /\ calls[c].key.str \in Words(calls'[c].result.error.message)
          /\ Includes(calls'[c].result.error.message, <<"not", "found">>)
          /\ cache' = cache
          /\ cacheTimestamps' = cacheTimestamps]_vars

\* (C8, the case the code gets right: the 404 body is not the JSON literal null)
C8_NotFoundUnlessNullBody ==
  [][\A c \in Calls :
       (/\ calls[c].op = "get"
        /\ calls[c].pc = "json"
        /\ calls[c].status = 404
        /\ calls'[c].pc # "json"
        /\ calls'[c].log[Len(calls'[c].log)].error # NullTypeError)
       => /\ calls'[c].pc = "done"
          /\ calls'[c].nreq = calls[c].nreq
          /\ calls'[c].result = Raised(NotFoundError(calls[c].key))
          /\ cache' = cache
          /\ cacheTimestamps' = cacheTimestamps]_vars

\* C9 (as claimed): exists(key) returns true exactly when its get(key) succeeded,
\* false when it failed with NotFound, and re-raises every other failure of get.
C9_ExistsNotFoundOnly ==
  \A c \in Calls :
    LET cr == calls[c]
        notFound == Raised(NotFoundError(cr.key))
    IN  (cr.op = "exists" /\ cr.pc = "done")
        => /\ cr.result = Returned("true") <=> cr.got.state = "ok"
           /\ cr.got = notFound => cr.result = Returned("false")
           /\ (cr.got.state = "error" /\ cr.got # notFound) => cr.result = Raised(cr.got.error)

\* C9 (amended): exists(key) returns true exactly when its get(key) succeeded,
\* false when get failed with NotFound or with any other error whose message
\* contains "not found", and re-raises every other failure of get.
C9_ExistsByMessage ==
  \A c \in Calls :
    LET cr == calls[c]
        saysNotFound == Includes(cr.got.error.message, <<"not", "found">>)
    IN  (cr.op = "exists" /\ cr.pc = "done")
        => /\ cr.result = Returned("true") <=> cr.got.state = "ok"
           /\ cr.got = Raised(NotFoundError(cr.key)) => cr.result = Returned("false")
           /\ (cr.got.state = "error" /\ saysNotFound) => cr.result = Returned("false")
           /\ (cr.got.state = "error" /\ ~saysNotFound) => cr.result = Raised(cr.got.error)

\* exists answered false for a get that failed with status 400, not with NotFound
C9_Witness ==
  \E c \in Calls :
    /\ calls[c].op = "exists"
    /\ calls[c].pc = "done"
    /\ calls[c].got.state = "error"
    /\ calls[c].got.error.hasStatus
    /\ calls[c].got.error.status = 400
    /\ calls[c].result = Returned("false")

\* getMany(keys) with an array and failOnMissing false has returned
ManyReturnedLenient == many.pc = "done" /\ many.isArray /\ ~many.failOnMissing

NoGetOfManyInProgress == \A c \in Calls : calls[c].op # "manyGet"

\* C10 (as claimed): getMany with failOnMissing false never raises, returns
\* only after every per-key get has completed, and maps the key of every get to
\* its value if that get succeeded and to null if it failed.
C10_EveryGet ==
  ManyReturnedLenient
  => /\ many.result = Returned("results")
     /\ many.pending = {}
     /\ NoGetOfManyInProgress
     /\ \A i \in 1..Len(many.keys) :
          LET k == many.keys[i].str
          IN  /\ i \in DOMAIN many.outcomes
              /\ k \in DOMAIN many.results
              /\ many.results[k] = IF many.outcomes[i].state = "ok"
                                   THEN many.outcomes[i].value ELSE Null

\* the get of key k that completed last
LastGetOf(k) ==
  LET js == {j \in 1..Len(many.order) : many.keys[many.order[j]].str = k}
  IN  many.order[CHOOSE j \in js : \A j2 \in js : j2 <= j]

\* C10 (amended): ... and maps every requested key to the value of the get of
\* that key that completed last if it succeeded, and to null if it failed (for
\* a key listed once: of its only get).
C10_LastGet ==
  ManyReturnedLenient
  => /\ many.result = Returned("results")
     /\ many.pending = {}
     /\ NoGetOfManyInProgress
     /\ Len(many.order) = Len(many.keys)
     /\ DOMAIN many.results = {many.keys[i].str : i \in 1..Len(many.keys)}
     /\ \A i \in 1..Len(many.keys) :
          LET k == many.keys[i].str
              o == many.outcomes[LastGetOf(k)]
          IN  many.results[k] = IF o.state = "ok" THEN o.value ELSE Null

\* getMany(["a", "b"]) returned {a: v1, b: null}: the get of "b" failed
C10_Witness ==
  /\ ManyReturnedLenient
  /\ many.keys = <<Str("a"), Str("b")>>
  /\ many.outcomes[1] = Returned("v1")
  /\ many.outcomes[2].state = "error"
  /\ many.results = ("a" :> "v1") @@ ("b" :> Null)
  /\ many.result.state = "ok"


\* getMany(keys) with an array and failOnMissing true has returned or raised
ManySettledStrict == many.pc = "done" /\ many.isArray /\ many.failOnMissing

FailedGets == {i \in DOMAIN many.outcomes : many.outcomes[i].state = "error"}

\* C11: getMany with failOnMissing true raises the aggregate error if and only
\* if at least one per-key get failed (otherwise it returns the results); it
\* settles only after every per-key get has completed, whatever the order of
\* completion, and the error lists every failed get: its key followed by its
\* reason, one entry per failed get.
C11_AggregateAll ==
  ManySettledStrict
  => /\ many.pending = {}
     /\ NoGetOfManyInProgress
     /\ DOMAIN many.outcomes = 1..Len(many.keys)
     /\ many.result.state = "error" <=> FailedGets # {}
     /\ many.result.state # "error" => many.result = Returned("results")
     /\ many.result.state = "error"
        => /\ Len(many.errors) = Cardinality(FailedGets)
           /\ \A i \in FailedGets :
                /\ Includes(many.result.error.message,
                            <<many.keys[i].str>> \o many.outcomes[i].error.message)
                /\ \E j \in 1..Len(many.errors) :
                     many.errors[j] = [key |-> many.keys[i].str,
                                       error |-> many.outcomes[i].error.message]

\* getMany(["a", "b"], {failOnMissing: true}): both gets failed, the one of "b"
\* first, and the error lists both
C11_Witness ==
  /\ ManySettledStrict
  /\ many.keys = <<Str("a"), Str("b")>>
  /\ many.order = <<2, 1>>
  /\ FailedGets = {1, 2}
  /\ many.result.state = "error"
  /\ Len(many.errors) = 2


\* ---- caching disabled, key validation
NothingStored == cache = <<>> /\ cacheTimestamps = <<>>

\* C12: on an instance constructed with caching disabled, in every state and
\* across every step, nothing is stored, getCacheStats() returns exactly
\* {enabled: false}, and every get and getAll that starts (with a valid key)
\* issues a transport request.
C12_DisabledCache ==
  [][~config.cache
     => /\ NothingStored
        /\ NothingStored'
        /\ GetCacheStats = [enabled |-> FALSE]
        /\ GetCacheStats' = [enabled |-> FALSE]
        /\ \A c \in Calls :
             Starts(c, {"get", "getAll"}) => GoneToNetwork(calls'[c])]_vars

\* caching disabled: a get with the default options has returned a fetched
\* value, a second one of the same key is at the transport, nothing is stored
C12_Witness ==
  /\ ~config.cache
  /\ NothingStored
  /\ GetCacheStats = [enabled |-> FALSE]
  /\ \E c, d \in Calls :
       /\ calls[c].op = "get" /\ calls[c].useCache
       /\ calls[c].pc = "done" /\ calls[c].nreq = 1 /\ calls[c].result.state = "ok"
       /\ calls[d].op = "get" /\ calls[d].useCache /\ calls[d].key = calls[c].key
       /\ GoneToNetwork(calls[d])


\* C13: a get(key) that starts with a key that is empty or not a string is
\* settled in that same step with the invalid-key error: no transport request,
\* no timer, no cache hit, and the cache maps are left as they were.
C13_InvalidKey ==
  [][\A c \in Calls :
       (/\ calls[c].pc = "idle"
        /\ calls'[c].op = "get"
        /\ InvalidKey(calls'[c].key))
       => /\ calls'[c].pc = "done"
          /\ calls'[c].result = Raised(InvalidKeyError)
          /\ calls'[c].nreq = 0
          /\ calls'[c].timers = {}
          /\ ~calls'[c].hit
          /\ cache' = cache
          /\ cacheTimestamps' = cacheTimestamps
          /\ hist' = hist]_vars

\* get(7) was refused although a valid entry is cached under "secret:7"
C13_Witness ==
  \E c \in Calls :
    /\ calls[c].op = "get"
    /\ calls[c].key = Num("7")
    /\ calls[c].useCache
    /\ calls[c].pc = "done"
    /\ calls[c].result = Raised(InvalidKeyError)
    /\ calls[c].nreq = 0
    /\ IsCacheValid(SecretKey(calls[c].key))


\* ---- the executor: malformed bodies, timeouts, attempts in flight
\* an attempt that received a success status and a body that is not valid JSON
MalformedSuccess(entry) == ResponseOk(entry.status) /\ entry.error = JsonSyntaxError

\* C14: an attempt that received a success status with a body that is not
\* valid JSON is the last attempt of its call: the call has raised the parse
\* error, with no transport request and no sleep after that attempt.
C14_MalformedTerminal ==
  \A c \in Calls :
    LET cr == calls[c]
    IN  \A j \in 1..Len(cr.log) :
          MalformedSuccess(cr.log[j])
          => /\ j = Len(cr.log)
             /\ cr.pc = "done"
             /\ cr.nreq = j
             /\ Len(cr.sleeps) = j - 1
             /\ cr.result = Raised(JsonSyntaxError)

\* (C14, what the code does: the parse failure is handled like a 5xx; it is
\* raised only when it happens on the last attempt)
C14_MalformedRetried ==
  \A c \in Calls :
    LET cr == calls[c]
    IN  \A j \in 1..Len(cr.log) :
          MalformedSuccess(cr.log[j])
          => /\ j - 1 < config.retries => (j < Len(cr.log) \/ cr.pc # "done")
             /\ j - 1 = config.retries => /\ cr.pc = "done"
                                          /\ cr.result = Raised(JsonSyntaxError)


InProgress(cr) == cr.pc \in {"fetch", "json", "sleep"}

\* C15: every _makeRequest call eventually returns or raises, whatever the
\* transport does or fails to do, and never issues more than retries + 1
\* requests.
C15_Terminates ==
  /\ [](\A c \in Calls : calls[c].nreq <= config.retries + 1)
  /\ \A c \in Calls : InProgress(calls[c]) ~> (calls[c].pc = "done")

\* (C15, the part the code gets right: an attempt to which no response is
\* delivered is aborted by its timer and the call goes on, so that the call
\* settles unless it comes to wait for a response body)
C15_TerminatesOrReadsBody ==
  /\ [](\A c \in Calls : calls[c].nreq <= config.retries + 1)
  /\ \A c \in Calls :
       (calls[c].pc \in {"fetch", "sleep"}) ~> (calls[c].pc \in {"done", "json"})

\* (C15: a timer that aborts an attempt in flight makes it fail with AbortError,
\* which is not a client error)
C15_AbortIsRetryable ==
  [][\A c \in Calls :
       (/\ calls[c].pc = "fetch"
        /\ calls[c].attempt \in calls[c].timers
        /\ calls[c].attempt \notin calls'[c].timers
        /\ calls'[c].status = 0
        /\ Len(calls'[c].log) = Len(calls[c].log) + 1)
       => /\ calls'[c].log[Len(calls'[c].log)] = [status |-> 0, error |-> AbortError]
          /\ ~IsClientError(AbortError)
          /\ calls'[c].pc = IF IsLastAttempt(calls[c].attempt) THEN "done" ELSE "sleep"]_vars


\* the attempts of the call that were issued and have not ended
InFlight(cr) == cr.nreq - Len(cr.log)

\* C16: within one _makeRequest call at most one attempt is in flight (the
\* requests issued exceed the attempts ended by one while the call is at fetch or
\* reads the body, and by none otherwise), a request is issued only when none
\* is in flight, and a timer can abort only the attempt it was armed for: the
\* timer of another attempt fires without any effect on the call.
C16_OneInFlight ==
  [][\A c \in Calls :
       LET cr == calls[c]
           nx == calls'[c]
       IN  /\ InFlight(cr) = IF cr.pc \in {"fetch", "json"} THEN 1 ELSE 0
           /\ InFlight(nx) = IF nx.pc \in {"fetch", "json"} THEN 1 ELSE 0
           /\ cr.pc \in {"fetch", "json"} => nx.attempt = cr.attempt \/ nx.pc = "idle"
           /\ (nx.nreq = cr.nreq + 1) => (InFlight(cr) = 0 /\ nx.attempt \in nx.timers)
           /\ \A i \in cr.timers \ nx.timers :
                (nx.pc # "idle" /\ ~(i = cr.attempt /\ cr.pc = "fetch"))
                => nx = [cr EXCEPT !.timers = @ \ {i}]]_vars

\* attempt 1 is in flight while the timer of attempt 0, which ended in a
\* network failure, is still armed
C16_Witness ==
  \E c \in Calls :
    /\ calls[c].pc = "fetch"
    /\ calls[c].attempt = 1
    /\ calls[c].timers = {0, 1}
    /\ calls[c].nreq = 2
    /\ Len(calls[c].log) = 1


\* ---- the cache under overlapping calls
\* C17: in every state the value map and the timestamp map have the same keys,
\* and the entry of a key is the value of the latest store of that key together
\* with the time of that same store.
C17_PairsTogether ==
  /\ DOMAIN cache = DOMAIN cacheTimestamps
  /\ \A ck \in DOMAIN cache :
       /\ ck \in DOMAIN hist.last
       /\ cache[ck] = hist.last[ck].value
       /\ cacheTimestamps[ck] = hist.last[ck].at

\* an entry overwritten at a later time with another value while a getAll is
\* at the transport
C17_Witness ==
  /\ \E ck \in DOMAIN cache :
       /\ hist.first[ck].value # cache[ck]
       /\ hist.first[ck].at < cacheTimestamps[ck]
  /\ \E c \in Calls : calls[c].op = "getAll" /\ calls[c].pc \in {"fetch", "json"}


\* ---- the request handed to the transport
\* C18: every request handed to the transport carries an Authorization header,
\* whatever options _makeRequest was called with.
C18_CredentialKept ==
  \A c \in Calls :
    calls[c].nreq >= 1 => "Authorization" \in DOMAIN calls[c].sent

\* (C18, what the code does: the request carries the three default headers when
\* options has no headers property, and otherwise exactly options.headers)
C18_HeadersReplaced ==
  \A c \in Calls :
    calls[c].nreq >= 1
    => calls[c].sent = IF "headers" \in calls[c].options.keys
                       THEN calls[c].options.headers
                       ELSE DefaultHeaders


\* ---- useCache: false, and fetches in flight across clearCache
Bypassing(cr) == cr.op \in {"get", "getAll"} /\ ~cr.useCache

\* C19: a get or getAll called with useCache false goes to the network when it
\* starts, also when a valid entry exists, and no step of such a call, whether
\* it ends in success or in failure, changes the value map or the timestamp map.
C19_Bypass ==
  [][\A c \in Calls :
       /\ (Starts(c, {"get", "getAll"}) /\ ~calls'[c].useCache)
          => GoneToNetwork(calls'[c])
       /\ (calls'[c] # calls[c] /\ (Bypassing(calls[c]) \/ Bypassing(calls'[c])))
          => /\ cache' = cache
             /\ cacheTimestamps' = cacheTimestamps]_vars

\* a get with useCache false has returned a fetched value other than the one
\* cached for its key, and the entry, still valid, is the old one
C19_Witness ==
  \E c \in Calls :
    LET ck == SecretKey(calls[c].key)
    IN  /\ calls[c].op = "get"
        /\ ~calls[c].useCache
        /\ calls[c].pc = "done"
        /\ calls[c].nreq = 1
        /\ calls[c].result.state = "ok"
        /\ IsCacheValid(ck)
        /\ cache[ck] # calls[c].result.value


\* the cache keys whose entry the step writes
Written ==
  {ck \in DOMAIN cache' :
     \/ ck \notin DOMAIN cache
     \/ cache'[ck] # cache[ck]
     \/ cacheTimestamps'[ck] # cacheTimestamps[ck]}

\* C20: once clearCache() has returned, an entry is written only for a key
\* that a get or getAll started after the clear has looked up: the response to
\* a request issued before the clear is never stored.
C20_ClearCoversInFlight ==
  [][hist.cleared => Written \subseteq hist.started]_vars

====
